---- MODULE Spec2Model ----
(***************************************************************************)
(* Model of the TV-show browser page (src/script.js) and of the earlier    *)
(* single-show page (src/unnamed/part_001).                                *)
(*                                                                         *)
(* Strings the code inspects (names, summaries, search terms, episode      *)
(* codes) are sequences of one-character strings; fixed UI messages are    *)
(* TLA+ strings.  An optional value (ep.summary, a showCache slot, the     *)
(* first element found by a DOM query) is a sequence of length 0 or 1.     *)
(* Show ids are integers; NoShow stands for the "" value of the            *)
(* "Select a show..." option.                                              *)
(***************************************************************************)
EXTENDS Integers, Sequences, FiniteSets, TLC

\* ------------------------------------------------------------------ bounds
\* Longest episode list the pure functions are applied to.
MaxListLen == 2
\* Largest season and episode number an episode code is formatted for.
MaxNumber == 101
\* Longest shows list the catalog answers with when startup is looked at
\* on its own.
MaxShows == 3
\* Episode fetches that may be issued in one session when every fetch is
\* required to settle.
MaxLiveFetches == 2
\* Episode fetches that may be issued in one session.
MaxFetches == 3

\* ------------------------------------------------------- program constants
\* loadEpisodesForShow(82)
DefaultShow == 82
\* value of the "Select a show..." option ("" in the code)
NoShow == 0
\* value of the "Show All Episodes" option
All == <<"a", "l", "l">>

LoadingShowsText == "Loading shows... Please wait."
ShowsErrorText == "Error loading shows. Please try again later."
LoadingEpisodesText == "Loading episodes..."
EpisodesErrorText == "Failed to load episodes for this show."

\* --------------------------------------------------------- string helpers
\* String.prototype.toLowerCase on one character
LowerChar(c) ==
  CASE c = "A" -> "a"
    [] c = "B" -> "b"
    [] c = "Z" -> "z"
    [] OTHER -> c

\* String.prototype.toLowerCase
toLowerCase(s) == [i \in 1..Len(s) |-> LowerChar(s[i])]

\* variant: an empty search term matches nothing
includes_NonEmpty(s, t) ==
  /\ t # <<>>
  /\ \E i \in 0..(Len(s) - Len(t)) : SubSeq(s, i + 1, i + Len(t)) = t

\* String.prototype.includes
includes(s, t) ==
  \E i \in 0..(Len(s) - Len(t)) : SubSeq(s, i + 1, i + Len(t)) = t

DigitChar(d) ==
  CASE d = 0 -> "0" [] d = 1 -> "1" [] d = 2 -> "2" [] d = 3 -> "3"
    [] d = 4 -> "4" [] d = 5 -> "5" [] d = 6 -> "6" [] d = 7 -> "7"
    [] d = 8 -> "8" [] d = 9 -> "9"

\* String(n) for a non-negative integer
RECURSIVE String(_)
String(n) ==
  IF n < 10 THEN <<DigitChar(n)>>
  ELSE Append(String(n \div 10), DigitChar(n % 10))

\* variant: pad, then keep the last targetLength characters
padStart_Slice(s, targetLength, fill) ==
  LET padded == [i \in 1..targetLength |-> fill] \o s
  IN SubSeq(padded, Len(padded) - targetLength + 1, Len(padded))

\* String.prototype.padStart with a one-character fill
RECURSIVE padStart(_, _, _)
padStart(s, targetLength, fill) ==
  IF Len(s) >= targetLength THEN s
  ELSE padStart(<<fill>> \o s, targetLength, fill)

\* ep.summary || ""
OrEmpty(opt) == IF opt = <<>> THEN <<>> ELSE opt[1]

\* a.localeCompare(b) < 0 on lower-cased names: code-point rank of a char
CharRank(c) ==
  CASE c = " " -> 0 [] c = "a" -> 1 [] c = "b" -> 2 [] c = "z" -> 26
    [] OTHER -> 30

RECURSIVE localeCompare(_, _)
localeCompare(a, b) ==
  IF a = <<>> /\ b = <<>> THEN 0
  ELSE IF a = <<>> THEN -1
  ELSE IF b = <<>> THEN 1
  ELSE IF CharRank(a[1]) < CharRank(b[1]) THEN -1
  ELSE IF CharRank(a[1]) > CharRank(b[1]) THEN 1
  ELSE localeCompare(Tail(a), Tail(b))

\* ----------------------------------------------------- the remote catalog
\* GET /shows : the bodies the catalog may answer with
ShowsCatalog ==
  { << [id |-> 82, name |-> <<"b">>], [id |-> 1, name |-> <<"A">>] >>,
    << [id |-> 1, name |-> <<"a">>], [id |-> 82, name |-> <<"A">>] >> }

ShowIds == {82, 1}

Ep(s, n, nm, sm) == [season |-> s, number |-> n, name |-> nm, summary |-> sm]

\* GET /shows/{id}/episodes : the bodies the catalog may answer with.  The
\* catalog is remote and may change between two requests for the same show.
EpisodesCatalog(showId) ==
  IF showId = 82
  THEN { << Ep(1, 1, <<"A", "b">>, << <<"b", "a">> >>),
            Ep(1, 2, <<"B">>, <<>>) >>,
         << Ep(1, 1, <<"A", "b">>, << <<"b", "a">> >>),
            Ep(1, 2, <<"B">>, <<>>),
            Ep(12, 5, <<"a">>, << <<>> >>) >> }
  ELSE { << Ep(1, 1, <<"a", "a">>, << <<"B">> >>),
            Ep(1, 1, <<"z">>, << <<"A">> >>),
            Ep(2, 10, <<"b">>, <<>>) >> }

\* res.json() builds fresh objects for every response: rid is the identity
\* of the response the object was decoded from.
Decode(body, rid) ==
  [i \in 1..Len(body) |->
     [season |-> body[i].season, number |-> body[i].number,
      name |-> body[i].name, summary |-> body[i].summary, rid |-> rid]]

\* what the user may type into the search box
SearchTerms == { <<>>, <<"a">>, <<"B">>, <<"z", "z">> }

\* ------------------------------------------------------- pure functions
getEpisodeCode(episode) ==
  LET seasonStr == padStart(String(episode.season), 2, "0")
      episodeStr == padStart(String(episode.number), 2, "0")
  IN <<"S">> \o seasonStr \o <<"E">> \o episodeStr

\* variant: the callback looks at the name only
SearchPredicate_NameOnly(ep, searchTerm) ==
  includes(toLowerCase(ep.name), searchTerm)

\* the callback of currentEpisodes.filter in the search handler
SearchPredicate(ep, searchTerm) ==
  LET name == toLowerCase(ep.name)
      summary == toLowerCase(OrEmpty(ep.summary))
  IN includes(name, searchTerm) \/ includes(summary, searchTerm)

\* variant: the loop stops one match short
filter_DropLast(episodes, searchTerm) ==
  LET kept == SelectSeq(episodes, LAMBDA ep : SearchPredicate(ep, searchTerm))
  IN IF kept = <<>> THEN kept ELSE SubSeq(kept, 1, Len(kept) - 1)

\* Array.prototype.filter with the search callback
RECURSIVE filter(_, _)
filter(episodes, searchTerm) ==
  IF episodes = <<>> THEN <<>>
  ELSE IF SearchPredicate(Head(episodes), searchTerm)
       THEN <<Head(episodes)>> \o filter(Tail(episodes), searchTerm)
       ELSE filter(Tail(episodes), searchTerm)

\* variant: the last episode with the code is returned
find_Last(episodes, selectedValue) ==
  LET hits == {i \in 1..Len(episodes) : getEpisodeCode(episodes[i]) = selectedValue}
  IN IF hits = {} THEN <<>>
     ELSE << episodes[CHOOSE i \in hits : \A j \in hits : j <= i] >>

\* Array.prototype.find with the code callback: <<>> is undefined
RECURSIVE find(_, _)
find(episodes, selectedValue) ==
  IF episodes = <<>> THEN <<>>
  ELSE IF getEpisodeCode(Head(episodes)) = selectedValue
       THEN <<Head(episodes)>>
       ELSE find(Tail(episodes), selectedValue)

\* variant: the names are compared as they are, not lower-cased
CompareShows_CaseSensitive(a, b) == localeCompare(a.name, b.name)

\* comparator of shows.sort
CompareShows(a, b) == localeCompare(toLowerCase(a.name), toLowerCase(b.name))

\* Array.prototype.sort (stable): insert x after every element not above it
RECURSIVE InsertSorted(_, _)
InsertSorted(sorted, x) ==
  IF sorted = <<>> THEN <<x>>
  ELSE IF CompareShows(x, Head(sorted)) < 0 THEN <<x>> \o sorted
       ELSE <<Head(sorted)>> \o InsertSorted(Tail(sorted), x)

RECURSIVE sort(_)
sort(shows) ==
  IF shows = <<>> THEN <<>>
  ELSE InsertSorted(sort(SubSeq(shows, 1, Len(shows) - 1)), shows[Len(shows)])

\* ------------------------------------------------------------- DOM pieces
\* root.textContent = t : the text replaces every child of the element
SetTextContent(t) == [text |-> t, cards |-> <<>>]

\* rootElem.innerHTML = "" followed by one appended card per episode
makePageForEpisodes(episodeList) == [text |-> "", cards |-> episodeList]

\* variant: the plural is used only above one
StatusText_PluralAboveOne(shownCount, totalCount) ==
  << "Showing ", String(shownCount), " episode",
     IF shownCount > 1 THEN "s" ELSE "",
     " of ", String(totalCount), " total." >>

\* the text updateInfoText writes
StatusText(shownCount, totalCount) ==
  << "Showing ", String(shownCount), " episode",
     IF shownCount # 1 THEN "s" ELSE "",
     " of ", String(totalCount), " total." >>

\* variant: the two counts are written in the wrong order
updateInfoText_Swapped(infos, shownCount, totalCount) ==
  LET present == IF infos = <<>> THEN << [text |-> <<>>] >> ELSE infos
  IN [present EXCEPT ![1].text = StatusText(totalCount, shownCount)]

\* updateInfoText on the list of .info-text elements, in document order
updateInfoText(infos, shownCount, totalCount) ==
  LET present == IF infos = <<>> THEN << [text |-> <<>>] >> ELSE infos
  IN [present EXCEPT ![1].text = StatusText(shownCount, totalCount)]

\* removeElementById / removeElementByClass: the first match, if any, goes
removeFirst(elements) == IF elements = <<>> THEN elements ELSE Tail(elements)

\* the option values createShowSelector gives the show <select>
ShowOptions(shows) == <<NoShow>> \o [i \in 1..Len(shows) |-> shows[i].id]

createShowSelector(containers, shows) ==
  Append(containers, [options |-> ShowOptions(shows), value |-> NoShow])

createSearchInput(containers) ==
  Append(containers, [value |-> <<>>, listeners |-> 0])

\* the option values createEpisodeSelector gives the episode <select>
EpisodeOptions(episodeList) ==
  <<All>> \o [i \in 1..Len(episodeList) |-> getEpisodeCode(episodeList[i])]

createEpisodeSelector(containers, episodeList) ==
  Append(containers,
         [options |-> EpisodeOptions(episodeList), value |-> All,
          listeners |-> 0])

\* addEventListener on the element getElementById finds (the first one)
addListener(containers) ==
  [containers EXCEPT ![1].listeners = containers[1].listeners + 1]

\* ------------------------------------------------------ fetch responses
\* what a fetch can come back with: the transport fails (also a body that
\* does not decode), or an HTTP response with or without a success status
TransportFail == [kind |-> "transportFail", ok |-> FALSE, body |-> <<>>]
HttpError == [kind |-> "http", ok |-> FALSE, body |-> <<>>]
HttpOk(b) == [kind |-> "http", ok |-> TRUE, body |-> b]

\* variant: the status of the response is not looked at
Fulfilled_NoStatusCheck(res) == res.kind = "http"

\* the promise chain up to the data handler: rejected by the transport, or
\* by the throw on !res.ok
Fulfilled(res) == res.kind = "http" /\ res.ok

\* ------------------------------------------------------------------ state
VARIABLES
  showCache,         \* showCache: show id -> <<>> (no entry) or <<episodes>>
  allShows,          \* allShows
  currentEpisodes,   \* currentEpisodes
  root,              \* the #root element: its text and its episode cards
  showContainers,    \* the #show-container elements, in document order
  searchContainers,  \* the #search-container elements, in document order
  selectContainers,  \* the #select-container elements, in document order
  infoTexts,         \* the .info-text elements, in document order
  showsFetch,        \* "unstarted", "pending" or "settled": GET /shows
  inflight,          \* episode fetches not yet settled: [rid, showId]
  nextRid,           \* identity of the next episodes fetch
  fetchesIssued,     \* history: episode fetches issued so far, per show id
  displayedShow,     \* history: show id of the last renderShowEpisodes
  lastEvent          \* history: the handler that ran last

vars ==
  << showCache, allShows, currentEpisodes, root, showContainers,
     searchContainers, selectContainers, infoTexts, showsFetch, inflight,
     nextRid, fetchesIssued, displayedShow, lastEvent >>

\* type: the handler; show: the show id it was about; arg: the text typed,
\* the option value chosen or the shows list received; res: the response a
\* fetch settled with
Event(type, show, arg, res) ==
  [type |-> type, show |-> show, arg |-> arg, res |-> res]

\* "transportFail", "httpError" or "httpOk"
ResKind(res) ==
  IF res.kind = "transportFail" THEN "transportFail"
  ELSE IF res.ok THEN "httpOk" ELSE "httpError"

Init ==
  /\ showCache = [s \in ShowIds |-> <<>>]
  /\ allShows = <<>>
  /\ currentEpisodes = <<>>
  /\ root = [text |-> "", cards |-> <<>>]
  /\ showContainers = <<>>
  /\ searchContainers = <<>>
  /\ selectContainers = <<>>
  /\ infoTexts = <<>>
  /\ showsFetch = "unstarted"
  /\ inflight = {}
  /\ nextRid = 1
  /\ fetchesIssued = [s \in ShowIds |-> 0]
  /\ displayedShow = NoShow
  /\ lastEvent = Event("none", NoShow, <<>>, "")

\* ---------------------------------------------------------------- handlers
\* variant: the render forgets to update currentEpisodes
renderShowEpisodes_KeepCurrent(episodes, showId) ==
  /\ currentEpisodes' = currentEpisodes
  /\ searchContainers' = addListener(createSearchInput(removeFirst(searchContainers)))
  /\ selectContainers' =
       addListener(createEpisodeSelector(removeFirst(selectContainers), episodes))
  /\ root' = makePageForEpisodes(episodes)
  /\ infoTexts' = updateInfoText(removeFirst(infoTexts), Len(episodes), Len(episodes))
  /\ displayedShow' = showId

\* variant: the old episode <select> is not removed before the new one is
\* created
renderShowEpisodes_KeepSelector(episodes, showId) ==
  /\ currentEpisodes' = episodes
  /\ searchContainers' = addListener(createSearchInput(removeFirst(searchContainers)))
  /\ selectContainers' =
       addListener(createEpisodeSelector(selectContainers, episodes))
  /\ root' = makePageForEpisodes(episodes)
  /\ infoTexts' = updateInfoText(removeFirst(infoTexts), Len(episodes), Len(episodes))
  /\ displayedShow' = showId

\* variant: the old search box is not removed before the new one is created
renderShowEpisodes_KeepSearch(episodes, showId) ==
  /\ currentEpisodes' = episodes
  /\ searchContainers' = addListener(createSearchInput(searchContainers))
  /\ selectContainers' =
       addListener(createEpisodeSelector(removeFirst(selectContainers), episodes))
  /\ root' = makePageForEpisodes(episodes)
  /\ infoTexts' = updateInfoText(removeFirst(infoTexts), Len(episodes), Len(episodes))
  /\ displayedShow' = showId

\* renderShowEpisodes(episodes), called for show showId
renderShowEpisodes(episodes, showId) ==
  /\ currentEpisodes' = episodes
  /\ searchContainers' = addListener(createSearchInput(removeFirst(searchContainers)))
  /\ selectContainers' =
       addListener(createEpisodeSelector(removeFirst(selectContainers), episodes))
  /\ root' = makePageForEpisodes(episodes)
  /\ infoTexts' = updateInfoText(removeFirst(infoTexts), Len(episodes), Len(episodes))
  /\ displayedShow' = showId

\* loadEpisodesForShow(showId); cache is showCache as the call finds it
loadEpisodesForShow(showId) ==
  IF showCache[showId] # <<>>
  THEN /\ renderShowEpisodes(showCache[showId][1], showId)
       /\ UNCHANGED <<inflight, nextRid, fetchesIssued>>
  ELSE /\ nextRid <= MaxFetches
       /\ root' = SetTextContent(LoadingEpisodesText)
       /\ inflight' = inflight \cup {[rid |-> nextRid, showId |-> showId]}
       /\ nextRid' = nextRid + 1
       /\ fetchesIssued' = [fetchesIssued EXCEPT ![showId] = @ + 1]
       /\ UNCHANGED <<currentEpisodes, searchContainers, selectContainers,
                      infoTexts, displayedShow>>

\* variant: the default show is loaded at once, without waiting for the
\* shows list
Setup_EagerLoad ==
  /\ showsFetch = "unstarted"
  /\ lastEvent' = Event("setup", NoShow, <<>>, "")
  /\ IF Len(allShows) > 0
     THEN /\ showsFetch' = "settled"
          /\ showContainers' = createShowSelector(showContainers, allShows)
          /\ loadEpisodesForShow(DefaultShow)
          /\ UNCHANGED <<showCache, allShows>>
     ELSE /\ showsFetch' = "pending"
          /\ loadEpisodesForShow(DefaultShow)
          /\ UNCHANGED <<showCache, allShows, showContainers>>

\* setup(): DOMContentLoaded fires once
Setup ==
  /\ showsFetch = "unstarted"
  /\ lastEvent' = Event("setup", NoShow, <<>>, "")
  /\ IF Len(allShows) > 0
     THEN /\ showsFetch' = "settled"
          /\ showContainers' = createShowSelector(showContainers, allShows)
          /\ loadEpisodesForShow(DefaultShow)
          /\ UNCHANGED <<showCache, allShows>>
     ELSE /\ showsFetch' = "pending"
          /\ root' = SetTextContent(LoadingShowsText)
          /\ UNCHANGED <<showCache, allShows, currentEpisodes, showContainers,
                         searchContainers, selectContainers, infoTexts,
                         inflight, nextRid, fetchesIssued, displayedShow>>

ShowsResponses == {TransportFail, HttpError} \cup {HttpOk(b) : b \in ShowsCatalog}

\* the promise chain of fetch(".../shows") settles with response res
ShowsSettle(res) ==
  /\ showsFetch = "pending"
  /\ showsFetch' = "settled"
  /\ lastEvent' = Event("showsSettled", NoShow, res.body, ResKind(res))
  /\ IF Fulfilled(res)
     THEN /\ allShows' = sort(res.body)
          /\ showContainers' = createShowSelector(showContainers, sort(res.body))
          /\ loadEpisodesForShow(DefaultShow)
          /\ UNCHANGED showCache
     ELSE /\ root' = SetTextContent(ShowsErrorText)
          /\ UNCHANGED <<showCache, allShows, currentEpisodes, showContainers,
                         searchContainers, selectContainers, infoTexts,
                         inflight, nextRid, fetchesIssued, displayedShow>>

\* the user picks option v of the show <select>: its change handler runs
ShowSelectChange(v) ==
  /\ showContainers # <<>>
  /\ \E i \in 1..Len(showContainers[1].options) : showContainers[1].options[i] = v
  /\ v # showContainers[1].value
  /\ showContainers' = [showContainers EXCEPT ![1].value = v]
  /\ lastEvent' = Event("showSelect", v, <<>>, "")
  /\ IF v # NoShow
     THEN loadEpisodesForShow(v)
     ELSE UNCHANGED <<currentEpisodes, root, searchContainers, selectContainers,
                      infoTexts, inflight, nextRid, fetchesIssued, displayedShow>>
  /\ UNCHANGED <<showCache, allShows, showsFetch>>

EpisodesResponses(showId) ==
  {TransportFail, HttpError} \cup {HttpOk(b) : b \in EpisodesCatalog(showId)}

\* variant: a response for a show other than the one chosen in the show
\* <select> is cached but not rendered
EpisodesSettle_IgnoreStale(f, res) ==
  /\ f \in inflight
  /\ inflight' = inflight \ {f}
  /\ lastEvent' = Event("episodesSettled", f.showId, <<>>, ResKind(res))
  /\ IF Fulfilled(res)
     THEN LET episodes == Decode(res.body, f.rid)
          IN /\ showCache' = [showCache EXCEPT ![f.showId] = <<episodes>>]
             /\ IF showContainers[1].value \in {NoShow, f.showId}
                THEN renderShowEpisodes(episodes, f.showId)
                ELSE UNCHANGED <<currentEpisodes, root, searchContainers,
                                 selectContainers, infoTexts, displayedShow>>
     ELSE /\ root' = SetTextContent(EpisodesErrorText)
          /\ UNCHANGED <<showCache, currentEpisodes, searchContainers,
                         selectContainers, infoTexts, displayedShow>>
  /\ UNCHANGED <<allShows, showContainers, showsFetch, nextRid, fetchesIssued>>

\* variant: the catch only logs, the page is left as it is
EpisodesSettle_SilentCatch(f, res) ==
  /\ f \in inflight
  /\ inflight' = inflight \ {f}
  /\ lastEvent' = Event("episodesSettled", f.showId, <<>>, ResKind(res))
  /\ IF Fulfilled(res)
     THEN LET episodes == Decode(res.body, f.rid)
          IN /\ showCache' = [showCache EXCEPT ![f.showId] = <<episodes>>]
             /\ renderShowEpisodes(episodes, f.showId)
     ELSE UNCHANGED <<root, showCache, currentEpisodes, searchContainers,
                      selectContainers, infoTexts, displayedShow>>
  /\ UNCHANGED <<allShows, showContainers, showsFetch, nextRid, fetchesIssued>>

\* the promise chain of one episodes fetch settles with response res
EpisodesSettle(f, res) ==
  /\ f \in inflight
  /\ inflight' = inflight \ {f}
  /\ lastEvent' = Event("episodesSettled", f.showId, <<>>, ResKind(res))
  /\ IF Fulfilled(res)
     THEN LET episodes == Decode(res.body, f.rid)
          IN /\ showCache' = [showCache EXCEPT ![f.showId] = <<episodes>>]
             /\ renderShowEpisodes(episodes, f.showId)
     ELSE /\ root' = SetTextContent(EpisodesErrorText)
          /\ UNCHANGED <<showCache, currentEpisodes, searchContainers,
                         selectContainers, infoTexts, displayedShow>>
  /\ UNCHANGED <<allShows, showContainers, showsFetch, nextRid, fetchesIssued>>

\* variant: the search handler leaves the episode <select> as it is
SearchInput_NoReset(q) ==
  /\ searchContainers # <<>>
  /\ searchContainers[1].listeners > 0
  /\ q # searchContainers[1].value
  /\ LET searchTerm == toLowerCase(q)
         filtered == filter(currentEpisodes, searchTerm)
     IN /\ searchContainers' = [searchContainers EXCEPT ![1].value = q]
        /\ selectContainers' = selectContainers
        /\ root' = makePageForEpisodes(filtered)
        /\ infoTexts' = updateInfoText(infoTexts, Len(filtered), Len(currentEpisodes))
  /\ lastEvent' = Event("search", NoShow, q, "")
  /\ UNCHANGED <<showCache, allShows, currentEpisodes, showContainers,
                 showsFetch, inflight, nextRid, fetchesIssued, displayedShow>>

\* variant: the search handler filters the cards on screen
SearchInput_Compose(q) ==
  /\ searchContainers # <<>>
  /\ searchContainers[1].listeners > 0
  /\ q # searchContainers[1].value
  /\ LET searchTerm == toLowerCase(q)
         filtered == filter(root.cards, searchTerm)
     IN /\ searchContainers' = [searchContainers EXCEPT ![1].value = q]
        /\ selectContainers' = [selectContainers EXCEPT ![1].value = All]
        /\ root' = makePageForEpisodes(filtered)
        /\ infoTexts' = updateInfoText(infoTexts, Len(filtered), Len(currentEpisodes))
  /\ lastEvent' = Event("search", NoShow, q, "")
  /\ UNCHANGED <<showCache, allShows, currentEpisodes, showContainers,
                 showsFetch, inflight, nextRid, fetchesIssued, displayedShow>>

\* the user edits the search box to read q: its input handler runs
SearchInput(q) ==
  /\ searchContainers # <<>>
  /\ searchContainers[1].listeners > 0
  /\ q # searchContainers[1].value
  /\ LET searchTerm == toLowerCase(q)
         filtered == filter(currentEpisodes, searchTerm)
     IN /\ searchContainers' = [searchContainers EXCEPT ![1].value = q]
        /\ selectContainers' = [selectContainers EXCEPT ![1].value = All]
        /\ root' = makePageForEpisodes(filtered)
        /\ infoTexts' = updateInfoText(infoTexts, Len(filtered), Len(currentEpisodes))
  /\ lastEvent' = Event("search", NoShow, q, "")
  /\ UNCHANGED <<showCache, allShows, currentEpisodes, showContainers,
                 showsFetch, inflight, nextRid, fetchesIssued, displayedShow>>

\* variant: "Show All Episodes" keeps the cards on screen
SelectedEpisodes_Stale(episodes, selectedValue) ==
  IF selectedValue = All THEN root.cards ELSE find(episodes, selectedValue)

\* what the change handler of the episode <select> renders for selectedValue
SelectedEpisodes(episodes, selectedValue) ==
  IF selectedValue = All THEN episodes ELSE find(episodes, selectedValue)

\* the shown count the change handler passes to updateInfoText
SelectedCount(episodes, selectedValue) ==
  IF selectedValue = All THEN Len(episodes)
  ELSE IF find(episodes, selectedValue) # <<>> THEN 1 ELSE 0

\* the user picks option number i of the episode <select>: its change
\* handler runs
EpisodeSelectChange(i) ==
  /\ selectContainers # <<>>
  /\ selectContainers[1].listeners > 0
  /\ i \in 1..Len(selectContainers[1].options)
  /\ selectContainers[1].options[i] # selectContainers[1].value
  /\ LET selectedValue == selectContainers[1].options[i]
     IN /\ selectContainers' = [selectContainers EXCEPT ![1].value = selectedValue]
        /\ searchContainers' = [searchContainers EXCEPT ![1].value = <<>>]
        /\ root' = makePageForEpisodes(SelectedEpisodes(currentEpisodes, selectedValue))
        /\ infoTexts' =
             updateInfoText(infoTexts,
                            SelectedCount(currentEpisodes, selectedValue),
                            Len(currentEpisodes))
        /\ lastEvent' = Event("episodeSelect", NoShow, selectedValue, "")
  /\ UNCHANGED <<showCache, allShows, currentEpisodes, showContainers,
                 showsFetch, inflight, nextRid, fetchesIssued, displayedShow>>

\* number of options of the episode <select> the user can pick from
EpisodeOptionCount ==
  IF selectContainers = <<>> THEN 0 ELSE Len(selectContainers[1].options)

Next ==
  \/ Setup
  \/ \E res \in ShowsResponses : ShowsSettle(res)
  \/ \E v \in ShowIds \cup {NoShow} : ShowSelectChange(v)
  \/ \E f \in inflight : \E res \in EpisodesResponses(f.showId) : EpisodesSettle(f, res)
  \/ \E q \in SearchTerms : SearchInput(q)
  \/ \E i \in 1..EpisodeOptionCount : EpisodeSelectChange(i)

Spec == Init /\ [][Next]_vars

\* every episodes fetch the session can issue
AllFetches == [rid : 1..MaxFetches, showId : ShowIds]

\* Spec with every fetch settling in the end: a pending shows fetch and
\* each pending episodes fetch is eventually resolved or rejected
NextLive == Next /\ nextRid' <= MaxLiveFetches + 1

SpecLive ==
  /\ Init /\ [][NextLive]_vars
  /\ WF_vars(\E res \in ShowsResponses : ShowsSettle(res))
  /\ \A f \in AllFetches :
       WF_vars(\E res \in EpisodesResponses(f.showId) : EpisodesSettle(f, res))

\* ------------------------------------ the single-show page (part_001)
\* The page of src/unnamed/part_001 has no show selector and no fetch: its
\* setup() renders the fixed list getAllEpisodes() and installs the same two
\* handlers over that list.  currentEpisodes stands for its allEpisodes; the
\* variables of the show selector, the cache and the fetches keep their
\* initial values.

\* the lists getAllEpisodes() may return: up to two of these episodes
L200Pool ==
  { [season |-> 1, number |-> 1, name |-> <<"A", "b">>, summary |-> << <<"b", "a">> >>, rid |-> 0],
    [season |-> 1, number |-> 2, name |-> <<"B">>, summary |-> <<>>, rid |-> 0],
    [season |-> 12, number |-> 5, name |-> <<"a">>, summary |-> << <<>> >>, rid |-> 0],
    [season |-> 1, number |-> 1, name |-> <<"z">>, summary |-> << <<"A">> >>, rid |-> 0] }

getAllEpisodes ==
  {<<>>} \cup {<<a>> : a \in L200Pool} \cup {<<a, b>> : a \in L200Pool, b \in L200Pool}

\* the value of a <select> none of whose options is selected ("" in the DOM)
NoOption == <<>>

L200Unchanged ==
  UNCHANGED <<showCache, allShows, showContainers, showsFetch, inflight,
              nextRid, fetchesIssued, displayedShow>>

\* setup() of part_001
L200_Setup(allEpisodes) ==
  /\ lastEvent.type = "none"
  /\ currentEpisodes' = allEpisodes
  /\ searchContainers' = addListener(createSearchInput(searchContainers))
  /\ selectContainers' = addListener(createEpisodeSelector(selectContainers, allEpisodes))
  /\ root' = makePageForEpisodes(allEpisodes)
  /\ infoTexts' = updateInfoText(infoTexts, Len(allEpisodes), Len(allEpisodes))
  /\ lastEvent' = Event("setup", NoShow, <<>>, "")
  /\ L200Unchanged

\* the input handler of part_001
L200_SearchInput(q) ==
  /\ searchContainers # <<>>
  /\ q # searchContainers[1].value
  /\ LET searchTerm == toLowerCase(q)
         filtered == filter(currentEpisodes, searchTerm)
     IN /\ searchContainers' = [searchContainers EXCEPT ![1].value = q]
        /\ selectContainers' = [selectContainers EXCEPT ![1].value = All]
        /\ root' = makePageForEpisodes(filtered)
        /\ infoTexts' = updateInfoText(infoTexts, Len(filtered), Len(currentEpisodes))
  /\ lastEvent' = Event("search", NoShow, q, "")
  /\ UNCHANGED currentEpisodes
  /\ L200Unchanged

\* the change handler of part_001 runs with the <select> reading
\* selectedValue: one of its options, or NoOption
L200_EpisodeSelectChange(selectedValue) ==
  /\ selectContainers # <<>>
  /\ selectedValue # selectContainers[1].value
  /\ \/ selectedValue = NoOption
     \/ \E i \in 1..Len(selectContainers[1].options) :
          selectContainers[1].options[i] = selectedValue
  /\ selectContainers' = [selectContainers EXCEPT ![1].value = selectedValue]
  /\ searchContainers' = [searchContainers EXCEPT ![1].value = <<>>]
  /\ IF selectedValue = All
     THEN /\ root' = makePageForEpisodes(currentEpisodes)
          /\ infoTexts' = updateInfoText(infoTexts, Len(currentEpisodes), Len(currentEpisodes))
     ELSE /\ root' = makePageForEpisodes(find(currentEpisodes, selectedValue))
          /\ infoTexts' = updateInfoText(infoTexts, 1, Len(currentEpisodes))
  /\ lastEvent' = Event("episodeSelect", NoShow, selectedValue, "")
  /\ UNCHANGED currentEpisodes
  /\ L200Unchanged

\* every value the episode <select> of part_001 can read
L200SelectValues ==
  {NoOption} \cup
  (IF selectContainers = <<>> THEN {}
   ELSE {selectContainers[1].options[i] : i \in 1..Len(selectContainers[1].options)})

NextL200 ==
  \/ \E allEpisodes \in getAllEpisodes : L200_Setup(allEpisodes)
  \/ \E q \in SearchTerms : L200_SearchInput(q)
  \/ \E v \in L200SelectValues : L200_EpisodeSelectChange(v)

SpecL200 == Init /\ [][NextL200]_vars

\* ------------------------------------------- the filter on its own
\* The filter of the search handler applied to any episode list and any
\* typed text: currentEpisodes is the list, root.cards the result.

\* every sequence over S of length at most n
SeqsUpTo(S, n) == UNION {[1..k -> S] : k \in 0..n}

FilterLists == SeqsUpTo(L200Pool, MaxListLen)

FilterQueries == SearchTerms \cup { <<"b">>, <<"A", "B">>, <<"b", "A">> }

PureUnchanged ==
  UNCHANGED <<showCache, allShows, currentEpisodes, showContainers,
              searchContainers, selectContainers, infoTexts, showsFetch,
              inflight, nextRid, fetchesIssued, displayedShow>>

InitFilter ==
  /\ showCache = [s \in ShowIds |-> <<>>]
  /\ allShows = <<>>
  /\ currentEpisodes \in FilterLists
  /\ root = [text |-> "", cards |-> <<>>]
  /\ showContainers = <<>>
  /\ searchContainers = <<>>
  /\ selectContainers = <<>>
  /\ infoTexts = <<>>
  /\ showsFetch = "unstarted"
  /\ inflight = {}
  /\ nextRid = 1
  /\ fetchesIssued = [s \in ShowIds |-> 0]
  /\ displayedShow = NoShow
  /\ lastEvent = Event("none", NoShow, <<>>, "")

\* the filter of the input handler runs on the list for the typed text q
FilterApply(q) ==
  /\ lastEvent.type = "none"
  /\ root' = makePageForEpisodes(filter(currentEpisodes, toLowerCase(q)))
  /\ lastEvent' = Event("filter", NoShow, q, "")
  /\ PureUnchanged

\* the same filter runs again on its own result for the same text
FilterAgain ==
  /\ lastEvent.type = "filter"
  /\ root' = makePageForEpisodes(filter(root.cards, toLowerCase(lastEvent.arg)))
  /\ lastEvent' = Event("filterAgain", NoShow, lastEvent.arg, "")
  /\ PureUnchanged

NextFilter ==
  \/ \E q \in FilterQueries : FilterApply(q)
  \/ FilterAgain

SpecFilter == InitFilter /\ [][NextFilter]_vars

\* ------------------------------------------- the lookup on its own
\* The find of the change handler applied to any episode list and the
\* code of any of its episodes: currentEpisodes is the list, root.cards
\* the episode found.

FindPool ==
  L200Pool \cup
  { [season |-> 2, number |-> 10, name |-> <<"b">>, summary |-> <<>>, rid |-> 0],
    [season |-> 100, number |-> 7, name |-> <<"a", "z">>, summary |-> <<>>, rid |-> 0] }

FindLists == SeqsUpTo(FindPool, MaxListLen)

InitFind ==
  /\ showCache = [s \in ShowIds |-> <<>>]
  /\ allShows = <<>>
  /\ currentEpisodes \in FindLists
  /\ root = [text |-> "", cards |-> <<>>]
  /\ showContainers = <<>>
  /\ searchContainers = <<>>
  /\ selectContainers = <<>>
  /\ infoTexts = <<>>
  /\ showsFetch = "unstarted"
  /\ inflight = {}
  /\ nextRid = 1
  /\ fetchesIssued = [s \in ShowIds |-> 0]
  /\ displayedShow = NoShow
  /\ lastEvent = Event("none", NoShow, <<>>, "")

\* the find of the change handler runs for the option of episode number i
Lookup(i) ==
  /\ lastEvent.type = "none"
  /\ i \in 1..Len(currentEpisodes)
  /\ LET selectedValue == EpisodeOptions(currentEpisodes)[i + 1]
     IN /\ root' = makePageForEpisodes(find(currentEpisodes, selectedValue))
        /\ lastEvent' = Event("lookup", NoShow, selectedValue, "")
  /\ PureUnchanged

NextFind == \E i \in 1..MaxListLen : Lookup(i)

SpecFind == InitFind /\ [][NextFind]_vars

\* ------------------------------------------ the episode code on its own
\* getEpisodeCode applied to any season and number: currentEpisodes holds
\* the one episode, lastEvent.arg the code.

InitCode ==
  /\ showCache = [s \in ShowIds |-> <<>>]
  /\ allShows = <<>>
  /\ currentEpisodes \in
       { << [season |-> sn, number |-> n, name |-> <<>>, summary |-> <<>>, rid |-> 0] >> :
           sn \in 1..MaxNumber, n \in 1..MaxNumber }
  /\ root = [text |-> "", cards |-> <<>>]
  /\ showContainers = <<>>
  /\ searchContainers = <<>>
  /\ selectContainers = <<>>
  /\ infoTexts = <<>>
  /\ showsFetch = "unstarted"
  /\ inflight = {}
  /\ nextRid = 1
  /\ fetchesIssued = [s \in ShowIds |-> 0]
  /\ displayedShow = NoShow
  /\ lastEvent = Event("none", NoShow, <<>>, "")

FormatCode ==
  /\ lastEvent.type = "none"
  /\ lastEvent' = Event("code", NoShow, getEpisodeCode(currentEpisodes[1]), "")
  /\ UNCHANGED root
  /\ PureUnchanged

NextCode == FormatCode

SpecCode == InitCode /\ [][NextCode]_vars

\* ------------------------------------------------ startup on its own
\* setup() and the settling of its shows fetch, for any shows list the
\* catalog may answer with; the episodes fetch of the default show stays
\* pending.

ShowPool ==
  { [id |-> 82, name |-> <<"b">>], [id |-> 1, name |-> <<"A">>],
    [id |-> 2, name |-> <<"a">>], [id |-> 3, name |-> <<"B">>],
    [id |-> 4, name |-> <<"a", " ", "Z">>] }

AnyShowsResponses ==
  {TransportFail, HttpError} \cup {HttpOk(b) : b \in SeqsUpTo(ShowPool, MaxShows)}

NextShows ==
  \/ Setup
  \/ \E res \in AnyShowsResponses : ShowsSettle(res)

SpecShows == Init /\ [][NextShows]_vars

\* ------------------------------------------------------------ properties
\* a is b with some elements left out, order kept
RECURSIVE IsSubsequence(_, _)
IsSubsequence(a, b) ==
  IF a = <<>> THEN TRUE
  ELSE IF b = <<>> THEN FALSE
  ELSE IF Head(a) = Head(b) THEN IsSubsequence(Tail(a), Tail(b))
  ELSE IsSubsequence(a, Tail(b))

\* the full episode list of show s as the session holds it
FullList(s) == IF showCache[s] = <<>> THEN <<>> ELSE showCache[s][1]

\* the show chosen in the show <select>, NoShow when none is
SelectedShow == IF showContainers = <<>> THEN NoShow ELSE showContainers[1].value

SearchValue == searchContainers[1].value
SelectValue == selectContainers[1].value
ControlsPresent == searchContainers # <<>> /\ selectContainers # <<>>

\* C1: at most one episodes fetch is issued per show id in a session.
C1_AtMostOneFetchPerShow == \A s \in ShowIds : fetchesIssued[s] <= 1

\* C2: while a show is chosen in the show selector, the episode cards on
\* screen all belong to that show's full episode list.
C2_RenderedSubsetOfSelectedShow ==
  SelectedShow # NoShow => IsSubsequence(root.cards, FullList(SelectedShow))

\* C2 (amended): the episode cards on screen are a subsequence, by identity,
\* of currentEpisodes, and currentEpisodes is the cached list of the show
\* rendered last, which need not be the show chosen in the show selector.
C2_RenderedSubsetOfCurrent ==
  /\ IsSubsequence(root.cards, currentEpisodes)
  /\ IF displayedShow = NoShow
     THEN currentEpisodes = <<>>
     ELSE showCache[displayedShow] = <<currentEpisodes>>

\* cards of one show on screen while another show is chosen in the selector
C2_Witness ==
  /\ root.cards # <<>>
  /\ SelectedShow # NoShow
  /\ SelectedShow # displayedShow
  /\ Len(root.cards) < Len(currentEpisodes)

\* C3: when an episodes fetch for a show has failed, the cache holds no
\* entry for that show.
C3_FailureLeavesNoEntry ==
  (lastEvent.type = "episodesSettled" /\ lastEvent.res # "httpOk")
    => showCache[lastEvent.show] = <<>>

\* C4: a cache entry, once created, is never removed, replaced or rewritten.
C4_CacheEntryNeverRewritten ==
  [][\A s \in ShowIds : showCache[s] # <<>> => showCache'[s] = showCache[s]]_vars

\* C5: a shows fetch or an episodes fetch that fails, by the transport or by
\* a non-success status, leaves the content area holding the plain error
\* message and no episode card; a failed shows fetch creates no selector.
C5_FailureShowsErrorMessage ==
  /\ (lastEvent.type = "showsSettled" /\ lastEvent.res # "httpOk")
       => /\ root = [text |-> ShowsErrorText, cards |-> <<>>]
          /\ showContainers = <<>>
          /\ inflight = {}
  /\ (lastEvent.type = "episodesSettled" /\ lastEvent.res # "httpOk")
       => root = [text |-> EpisodesErrorText, cards |-> <<>>]

\* an episodes fetch has just come back with a non-success status while the
\* episodes of an earlier show are still the current ones
C5_Witness ==
  /\ lastEvent.type = "episodesSettled"
  /\ lastEvent.res = "httpError"
  /\ currentEpisodes # <<>>

\* C6: once the error message of a failed episodes fetch is on screen, a
\* search input or an episode-dropdown change leaves it there.
C6_ErrorStaysUntilShowSelection ==
  [][(root.text = EpisodesErrorText
        /\ lastEvent'.type \in {"search", "episodeSelect"})
       => root' = root]_vars

\* C7: the search text is empty or the episode dropdown is at the sentinel;
\* a search input leaves the dropdown at the sentinel, a dropdown change
\* leaves the search text empty, and a render of a show resets both.
C7_FiltersMutuallyExclusive ==
  /\ ControlsPresent => (SearchValue = <<>> \/ SelectValue = All)
  /\ lastEvent.type = "search" => SelectValue = All
  /\ lastEvent.type = "episodeSelect" => SearchValue = <<>>
  /\ (lastEvent.type = "episodesSettled" /\ lastEvent.res = "httpOk")
       => (SearchValue = <<>> /\ SelectValue = All)

\* a search has just run with a non-empty text on a show with episodes
C7_Witness ==
  /\ lastEvent.type = "search"
  /\ SearchValue # <<>>
  /\ Len(selectContainers[1].options) > 1

\* the episodes of list that match the typed text q, in list order
Matching(list, q) ==
  SelectSeq(list, LAMBDA ep :
    \/ includes(toLowerCase(ep.name), toLowerCase(q))
    \/ includes(toLowerCase(OrEmpty(ep.summary)), toLowerCase(q)))

\* C8: after a search input the cards are the episodes of the full current
\* list that match the typed text, the dropdown is at the sentinel, and the
\* status line reads (number of matches, length of the full list).
C8_SearchFiltersFullList ==
  lastEvent.type = "search" =>
    /\ root = [text |-> "", cards |-> Matching(currentEpisodes, lastEvent.arg)]
    /\ SearchValue = lastEvent.arg
    /\ SelectValue = All
    /\ infoTexts = << [text |-> StatusText(Len(Matching(currentEpisodes, lastEvent.arg)),
                                           Len(currentEpisodes))] >>

\* a search has just matched some but not all episodes of the current show
C8_Witness ==
  /\ lastEvent.type = "search"
  /\ root.cards # <<>>
  /\ Len(root.cards) < Len(currentEpisodes)

\* a search has just matched nothing: no card, shown count 0
C8_WitnessNoMatch ==
  /\ lastEvent.type = "search"
  /\ root.cards = <<>>
  /\ currentEpisodes # <<>>
  /\ infoTexts[1].text[2] = <<"0">>

\* C10: after the episode dropdown is changed to the sentinel the search
\* text is empty, the cards are the full current list in catalog order and
\* the status line reads (total, total).
C10_SentinelRestoresFullList ==
  (lastEvent.type = "episodeSelect" /\ lastEvent.arg = All) =>
    /\ SearchValue = <<>>
    /\ SelectValue = All
    /\ root = [text |-> "", cards |-> currentEpisodes]
    /\ currentEpisodes = FullList(displayedShow)
    /\ infoTexts = << [text |-> StatusText(Len(currentEpisodes), Len(currentEpisodes))] >>

\* the dropdown has just been changed back to the sentinel on a show with
\* episodes
C10_Witness ==
  /\ lastEvent.type = "episodeSelect"
  /\ lastEvent.arg = All
  /\ Len(root.cards) > 1

\* the first episode of list whose code is code, as a list of 0 or 1
FirstWithCode(list, code) ==
  LET hits == {i \in 1..Len(list) : getEpisodeCode(list[i]) = code}
  IN IF hits = {} THEN <<>>
     ELSE << list[CHOOSE i \in hits : \A j \in hits : i <= j] >>

C9_WitnessMatched ==
  /\ lastEvent.type = "episodeSelect"
  /\ lastEvent.arg # All
  /\ Len(root.cards) = 1

\* two characters that are equal once case is folded
FoldEq(c, d) ==
  \/ c = d
  \/ {c, d} \in { {"a", "A"}, {"b", "B"}, {"z", "Z"} }

\* q occurs in s as a run of characters, case folded
ContainsFolded(s, q) ==
  \E k \in 0..(Len(s) - Len(q)) : \A j \in 1..Len(q) : FoldEq(s[k + j], q[j])

\* the test of C11: q is in the name or in the summary, absent meaning ""
Retained(ep, q) ==
  \/ ContainsFolded(ep.name, q)
  \/ ContainsFolded(IF ep.summary = <<>> THEN <<>> ELSE ep.summary[1], q)

\* C11: the filter keeps an episode iff the case-folded text is a substring
\* of its case-folded name or summary (an absent summary counting as ""),
\* in input order: the result is a subsequence of the list, each of its
\* episodes passes the test, and it has as many episodes as pass the test.
C11_FilterRetainsExactlyMatches ==
  lastEvent.type = "filter" =>
    /\ IsSubsequence(root.cards, currentEpisodes)
    /\ \A i \in 1..Len(root.cards) : Retained(root.cards[i], lastEvent.arg)
    /\ Len(root.cards) =
         Cardinality({i \in 1..Len(currentEpisodes) :
                        Retained(currentEpisodes[i], lastEvent.arg)})

\* a mixed-case text found only in the summary of one of two episodes
C11_Witness ==
  /\ lastEvent.type = "filter"
  /\ lastEvent.arg = <<"b", "A">>
  /\ Len(currentEpisodes) = 2
  /\ Len(root.cards) = 1
  /\ ~ContainsFolded(root.cards[1].name, lastEvent.arg)

\* C12: the filter with the empty text returns the list unchanged, episodes
\* without a summary included.
C12_EmptyQueryKeepsAll ==
  (lastEvent.type = "filter" /\ lastEvent.arg = <<>>) => root.cards = currentEpisodes

\* the empty text was applied to a list holding an episode without summary
C12_Witness ==
  /\ lastEvent.type = "filter"
  /\ lastEvent.arg = <<>>
  /\ Len(currentEpisodes) = 2
  /\ \E i \in 1..2 : currentEpisodes[i].summary = <<>>

\* C13: filtering the result of the filter again with the same text leaves
\* it as it is.
C13_FilterIdempotent ==
  [][lastEvent'.type = "filterAgain" => root'.cards = root.cards]_vars

\* the filter ran twice and kept some but not all episodes
C13_Witness ==
  /\ lastEvent.type = "filterAgain"
  /\ root.cards # <<>>
  /\ Len(root.cards) < Len(currentEpisodes)

\* positions of list whose episode has the season and number of list[i]
SamePair(list, i) ==
  {j \in 1..Len(list) :
     list[j].season = list[i].season /\ list[j].number = list[i].number}

\* C14: looking up the code of an episode of the list returns the first
\* episode of the list with the same season and number, which is the
\* episode itself when its pair is unique in the list.
C14_LookupReturnsFirstWithPair ==
  lastEvent.type = "lookup" =>
    \A i \in 1..Len(currentEpisodes) :
      getEpisodeCode(currentEpisodes[i]) = lastEvent.arg =>
        LET same == SamePair(currentEpisodes, i)
            first == CHOOSE j \in same : \A k \in same : j <= k
        IN /\ root.cards = << currentEpisodes[first] >>
           /\ same = {i} => root.cards = << currentEpisodes[i] >>

\* two different episodes share season and number; the first was found
C14_Witness ==
  /\ lastEvent.type = "lookup"
  /\ Len(currentEpisodes) = 2
  /\ currentEpisodes[1] # currentEpisodes[2]
  /\ getEpisodeCode(currentEpisodes[2]) = lastEvent.arg
  /\ root.cards = << currentEpisodes[1] >>

DecimalDigits == <<"0", "1", "2", "3", "4", "5", "6", "7", "8", "9">>

\* the number a run of decimal digits writes
RECURSIVE DigitsValue(_)
DigitsValue(ds) ==
  IF ds = <<>> THEN 0
  ELSE 10 * DigitsValue(SubSeq(ds, 1, Len(ds) - 1))
       + ((CHOOSE d \in 1..10 : DecimalDigits[d] = ds[Len(ds)]) - 1)

\* the season and number read back from a code "S<digits>E<digits>"
ParseCode(code) ==
  LET e == CHOOSE i \in 1..Len(code) : code[i] = "E"
  IN << DigitsValue(SubSeq(code, 2, e - 1)),
        DigitsValue(SubSeq(code, e + 1, Len(code))) >>

\* a number below 100 written with two digits
TwoDigits(k) == << DecimalDigits[(k \div 10) + 1], DecimalDigits[(k % 10) + 1] >>

\* C15: for season and number up to 99 the code is "S", the season in two
\* digits, "E", the number in two digits; for any season and number the
\* code reads back as that season and number, so no two pairs share a code.
C15_CodeFormat ==
  lastEvent.type = "code" =>
    LET sn == currentEpisodes[1].season
        n == currentEpisodes[1].number
    IN /\ (sn <= 99 /\ n <= 99) =>
            lastEvent.arg = <<"S">> \o TwoDigits(sn) \o <<"E">> \o TwoDigits(n)
       /\ (sn = 1 /\ n = 2) => lastEvent.arg = <<"S", "0", "1", "E", "0", "2">>
       /\ (sn = 12 /\ n = 5) => lastEvent.arg = <<"S", "1", "2", "E", "0", "5">>
       /\ ParseCode(lastEvent.arg) = <<sn, n>>

\* the code of season 100, number 7 keeps all three digits of the season
C15_Witness ==
  /\ lastEvent.type = "code"
  /\ currentEpisodes[1].season = 100
  /\ currentEpisodes[1].number = 7
  /\ lastEvent.arg = <<"S", "1", "0", "0", "E", "0", "7">>

\* the place of a character in the case-insensitive alphabet
FoldedRank(c) ==
  CHOOSE r \in 1..4 : FoldEq(c, <<" ", "a", "b", "z">>[r])

\* name a comes strictly before name b, case ignored
FoldedBefore(a, b) ==
  \E k \in 1..(Len(b)) :
    /\ \A j \in 1..(k - 1) : j <= Len(a) /\ FoldedRank(a[j]) = FoldedRank(b[j])
    /\ Len(a) >= k - 1
    /\ \/ Len(a) = k - 1
       \/ FoldedRank(a[k]) < FoldedRank(b[k])

\* out is input reordered by name, case ignored, ties in input order
IsStableSortOf(out, input) ==
  /\ Len(out) = Len(input)
  /\ \A i \in 1..Len(out) : \A j \in 1..Len(out) :
       i < j => ~FoldedBefore(out[j].name, out[i].name)
  /\ \E p \in [1..Len(out) -> 1..Len(out)] :
       /\ \A i \in 1..Len(out) : \A j \in 1..Len(out) : i # j => p[i] # p[j]
       /\ \A i \in 1..Len(out) : out[i] = input[p[i]]
       /\ \A i \in 1..Len(out) : \A j \in 1..Len(out) :
            (i < j /\ ~FoldedBefore(out[i].name, out[j].name)) => p[i] < p[j]

\* C16: the shows list is fetched at most once (a settled shows fetch is
\* never followed by another), and the list kept is the one received,
\* ordered by name with case ignored, shows with equal names in the order
\* received.
C16_ShowsFetchedOnceAndSorted ==
  /\ []((lastEvent.type = "showsSettled" /\ lastEvent.res = "httpOk")
          => IsStableSortOf(allShows, lastEvent.arg))
  /\ [](\A i \in 1..Len(allShows) : \A j \in 1..Len(allShows) :
          i < j => ~FoldedBefore(allShows[j].name, allShows[i].name))
  /\ [][/\ showsFetch = "settled" => showsFetch' = "settled"
        /\ showsFetch = "pending" => showsFetch' # "unstarted"
        /\ allShows # <<>> => allShows' = allShows]_vars

\* three shows arrived out of order, two of them with names equal up to
\* case, and they are kept next to each other in the order received
C16_Witness ==
  /\ lastEvent.type = "showsSettled"
  /\ Len(allShows) = 3
  /\ allShows # lastEvent.arg
  /\ allShows[1].name = <<"A">>
  /\ allShows[2].name = <<"a">>
  /\ allShows[3].name = <<"a", " ", "Z">>

\* ds writes a number in decimal, without a leading zero
IsNumeral(ds) ==
  /\ ds # <<>>
  /\ \A i \in 1..Len(ds) : \E d \in 1..10 : DecimalDigits[d] = ds[i]
  /\ Len(ds) > 1 => ds[1] # "0"

\* C17: there is at most one status line, and it reads "Showing <shown>
\* episode(s) of <total> total." where the "s" is left out exactly when
\* <shown> is 1.
C17_StatusLineFormat ==
  /\ Len(infoTexts) <= 1
  /\ \A k \in 1..Len(infoTexts) :
       LET t == infoTexts[k].text
       IN /\ Len(t) = 7
          /\ t[1] = "Showing " /\ t[3] = " episode"
          /\ t[5] = " of " /\ t[7] = " total."
          /\ IsNumeral(t[2]) /\ IsNumeral(t[6])
          /\ t[4] = (IF DigitsValue(t[2]) = 1 THEN "" ELSE "s")

\* one episode is shown and the status line is in the singular
C17_WitnessSingular ==
  /\ infoTexts # <<>>
  /\ Len(root.cards) = 1
  /\ infoTexts[1].text[2] = <<"1">>
  /\ infoTexts[1].text[4] = ""

\* no episode is shown and the status line is in the plural
C17_WitnessZero ==
  /\ infoTexts # <<>>
  /\ lastEvent.type = "search"
  /\ infoTexts[1].text[2] = <<"0">>
  /\ infoTexts[1].text[4] = "s"

\* the episodes as the catalog sent them, without the response identity
Body(episodes) ==
  [i \in 1..Len(episodes) |->
     Ep(episodes[i].season, episodes[i].number, episodes[i].name,
        episodes[i].summary)]

\* C18: a pending episodes fetch leaves the pending set only by settling,
\* one at a time, and a successful response is rendered whatever show is
\* chosen in the show selector by then: the cards, the options of the
\* episode dropdown and currentEpisodes are those of the response's show.
C18_LastResponseWins ==
  /\ []((lastEvent.type = "episodesSettled" /\ lastEvent.res = "httpOk") =>
          /\ displayedShow = lastEvent.show
          /\ Body(currentEpisodes) \in EpisodesCatalog(lastEvent.show)
          /\ showCache[lastEvent.show] = <<currentEpisodes>>
          /\ root = [text |-> "", cards |-> currentEpisodes]
          /\ Len(selectContainers) = 1
          /\ selectContainers[1].options =
               <<All>> \o [i \in 1..Len(currentEpisodes) |->
                             getEpisodeCode(currentEpisodes[i])])
  /\ [][\A f \in inflight :
          f \notin inflight' =>
            /\ lastEvent'.type = "episodesSettled"
            /\ lastEvent'.show = f.showId
            /\ inflight \ inflight' = {f}
            /\ inflight' \subseteq inflight]_vars

\* the response for one show has just been rendered while another show,
\* already loaded, is the one chosen in the show selector
C18_Witness ==
  /\ lastEvent.type = "episodesSettled"
  /\ lastEvent.res = "httpOk"
  /\ SelectedShow # NoShow
  /\ SelectedShow # lastEvent.show
  /\ showCache[SelectedShow] # <<>>
  /\ displayedShow = lastEvent.show
  /\ root.cards # <<>>

\* the page shows the full list of show s
Loaded(s) ==
  /\ displayedShow = s
  /\ currentEpisodes = FullList(s)
  /\ root = [text |-> "", cards |-> currentEpisodes]

\* C19: a show selection either renders the cached show at once or shows
\* the loading text with a fetch for that show pending; every pending
\* fetch is in the end settled, with its show rendered or the error
\* message shown; and the loading text never stays for ever.
C19_LoadingEnds ==
  /\ []((lastEvent.type = "showSelect" /\ lastEvent.show # NoShow) =>
          \/ Loaded(lastEvent.show)
          \/ /\ root = [text |-> LoadingEpisodesText, cards |-> <<>>]
             /\ \E f \in inflight : f.showId = lastEvent.show)
  /\ \A f \in AllFetches :
       (f \in inflight) ~>
         /\ f \notin inflight
         /\ lastEvent.type = "episodesSettled"
         /\ lastEvent.show = f.showId
         /\ \/ Loaded(f.showId)
            \/ root = [text |-> EpisodesErrorText, cards |-> <<>>]
  /\ (root.text = LoadingEpisodesText) ~> (root.text # LoadingEpisodesText)

\* a show has just been picked that is not cached: the loading text is up
C19_WitnessLoading ==
  /\ lastEvent.type = "showSelect"
  /\ lastEvent.show # NoShow
  /\ root.text = LoadingEpisodesText
  /\ showCache[lastEvent.show] = <<>>
  /\ currentEpisodes # <<>>

\* a show has just been picked that is cached: it is rendered at once
C19_WitnessCached ==
  /\ lastEvent.type = "showSelect"
  /\ lastEvent.show # NoShow
  /\ Loaded(lastEvent.show)
  /\ inflight = {}

\* C20: an episode selector, when there is one, is the only one, and its
\* options are the sentinel followed by the codes of the episodes of
\* currentEpisodes, one per episode and in list order; so every option but
\* the sentinel names the season and number of an episode of the list, and
\* a change to such an option always finds its episode.
C20_OptionsMirrorCurrentEpisodes ==
  /\ Len(selectContainers) <= 1
  /\ \A k \in 1..Len(selectContainers) :
       LET options == selectContainers[k].options
       IN /\ Len(options) = Len(currentEpisodes) + 1
          /\ options[1] = All
          /\ \A i \in 1..Len(currentEpisodes) :
               ParseCode(options[i + 1]) =
                 << currentEpisodes[i].season, currentEpisodes[i].number >>
  /\ (lastEvent.type = "episodeSelect" /\ lastEvent.arg # All) =>
       /\ Len(root.cards) = 1
       /\ ParseCode(lastEvent.arg) = << root.cards[1].season, root.cards[1].number >>
       /\ \E i \in 1..Len(currentEpisodes) : root.cards[1] = currentEpisodes[i]

\* an option of a selector rebuilt for a second show has just been chosen
C20_Witness ==
  /\ lastEvent.type = "episodeSelect"
  /\ lastEvent.arg # All
  /\ displayedShow # DefaultShow
  /\ showCache[DefaultShow] # <<>>
  /\ Len(selectContainers[1].options) = 4

\* nothing of the page beyond the text of #root exists and no episodes
\* fetch was ever issued
NothingStarted ==
  /\ showContainers = <<>>
  /\ searchContainers = <<>>
  /\ selectContainers = <<>>
  /\ infoTexts = <<>>
  /\ currentEpisodes = <<>>
  /\ root.cards = <<>>
  /\ inflight = {}
  /\ nextRid = 1
  /\ \A s \in ShowIds : fetchesIssued[s] = 0 /\ showCache[s] = <<>>

\* the shows fetch has just failed
ShowsFailed == lastEvent.type = "showsSettled" /\ lastEvent.res # "httpOk"

\* C21: until the shows fetch has settled nothing else exists: no show
\* selector, no episode controls, no episodes fetch.  The step in which the
\* shows fetch succeeds creates the one show selector and issues the one
\* episodes fetch for the default show, with the loading text up; no other
\* step creates a show selector, and every other episodes fetch is issued by
\* a show selection of the user.  When the shows fetch fails the page keeps
\* nothing but the error message and no step follows: no show selector, no
\* episodes fetch, the error message stays.
C21_ShowsFetchPrecedesAll ==
  /\ [](showsFetch # "settled" => NothingStarted)
  /\ [](Len(showContainers) <= 1)
  /\ [][(lastEvent'.type = "showsSettled" /\ lastEvent'.res = "httpOk") =>
          /\ showsFetch = "pending" /\ showsFetch' = "settled"
          /\ NothingStarted
          /\ Len(showContainers') = 1
          /\ showContainers'[1].options = ShowOptions(allShows')
          /\ showContainers'[1].value = NoShow
          /\ inflight' = {[rid |-> 1, showId |-> DefaultShow]}
          /\ fetchesIssued' = [s \in ShowIds |-> IF s = DefaultShow THEN 1 ELSE 0]
          /\ root' = [text |-> LoadingEpisodesText, cards |-> <<>>]]_vars
  /\ [][showContainers' # showContainers =>
          \/ lastEvent'.type = "showsSettled" /\ lastEvent'.res = "httpOk"
          \/ /\ lastEvent'.type = "showSelect"
             /\ Len(showContainers') = Len(showContainers)]_vars
  /\ [][fetchesIssued' # fetchesIssued =>
          \/ lastEvent'.type = "showsSettled" /\ lastEvent'.res = "httpOk"
          \/ /\ lastEvent'.type = "showSelect"
             /\ fetchesIssued' =
                  [fetchesIssued EXCEPT ![lastEvent'.show] = @ + 1]]_vars
  /\ [](ShowsFailed =>
          /\ NothingStarted
          /\ showsFetch = "settled"
          /\ root = [text |-> ShowsErrorText, cards |-> <<>>])
  /\ [][~ShowsFailed]_vars

\* the shows fetch has succeeded and the default load is the only thing
\* under way
C21_Witness ==
  /\ lastEvent.type = "showsSettled"
  /\ lastEvent.res = "httpOk"
  /\ Len(showContainers) = 1
  /\ inflight = {[rid |-> 1, showId |-> DefaultShow]}
  /\ root.text = LoadingEpisodesText

\* the shows fetch has failed: the error message is up and nothing else
C21_WitnessFailed ==
  /\ ShowsFailed
  /\ root.text = ShowsErrorText
  /\ showContainers = <<>>
  /\ nextRid = 1

\* the shown count and the total a status line reads
StatusShown(info) == DigitsValue(info.text[2])
StatusTotal(info) == DigitsValue(info.text[6])

\* #root carries a message (loading or error text) instead of cards
MessageUp == root.text # ""

\* C22 as claimed: in every state each status line reads, as its shown
\* count, the number of cards in #root and, as its total, the length of
\* currentEpisodes.
C22_StatusMatchesCardsAlways ==
  \A k \in 1..Len(infoTexts) :
    /\ StatusShown(infoTexts[k]) = Len(root.cards)
    /\ StatusTotal(infoTexts[k]) = Len(currentEpisodes)

\* C22 amended: each status line reads the length of currentEpisodes as its
\* total in every state, and the number of cards in #root as its shown
\* count in every state where #root shows cards rather than the loading or
\* the error text; a step that puts such a text up leaves the status line
\* as the previous render or filter wrote it.
C22_StatusMatchesCardsWhenShown ==
  /\ [](\A k \in 1..Len(infoTexts) :
          /\ StatusTotal(infoTexts[k]) = Len(currentEpisodes)
          /\ ~MessageUp => StatusShown(infoTexts[k]) = Len(root.cards))
  /\ [][(root'.text # "") => infoTexts' = infoTexts]_vars

\* a search has left fewer cards than the show has episodes, and the status
\* line says so
C22_Witness ==
  /\ infoTexts # <<>>
  /\ ~MessageUp
  /\ lastEvent.type = "search"
  /\ 0 < Len(root.cards)
  /\ Len(root.cards) < Len(currentEpisodes)
  /\ StatusShown(infoTexts[1]) = Len(root.cards)

\* the loading text is up over the status line of the show rendered before
C22_WitnessLoading ==
  /\ infoTexts # <<>>
  /\ root.text = LoadingEpisodesText
  /\ StatusShown(infoTexts[1]) > 0
  /\ StatusTotal(infoTexts[1]) = Len(currentEpisodes)

\* the step ran renderShowEpisodes: an episodes fetch came back with a list,
\* or the user chose a show that was in the cache
RenderStep ==
  \/ lastEvent'.type = "episodesSettled" /\ lastEvent'.res = "httpOk"
  \/ /\ lastEvent'.type = "showSelect"
     /\ lastEvent'.show # NoShow
     /\ showCache[lastEvent'.show] # <<>>

\* the handlers installed on the controls in the page, control by control
InstalledHandlers ==
  << [k \in 1..Len(searchContainers) |-> searchContainers[k].listeners],
     [k \in 1..Len(selectContainers) |-> selectContainers[k].listeners] >>

\* C23: the page never holds more than one search box, one episode
\* selector and one status line, and each control in the page carries
\* exactly one handler.  A render leaves exactly the controls it has just
\* built: an empty search box and a selector over the list it rendered, set
\* to the sentinel, each with the one handler this render installed, and one
\* status line; nothing of the controls before it remains.  No other step
\* adds or removes a control or a handler, or changes currentEpisodes, the
\* list the handlers work on.
C23_OnlyLatestControls ==
  /\ [](/\ Len(searchContainers) <= 1
        /\ Len(selectContainers) = Len(searchContainers)
        /\ Len(infoTexts) = Len(searchContainers)
        /\ \A k \in 1..Len(searchContainers) : searchContainers[k].listeners = 1
        /\ \A k \in 1..Len(selectContainers) : selectContainers[k].listeners = 1)
  /\ [][RenderStep =>
          /\ searchContainers' = << [value |-> <<>>, listeners |-> 1] >>
          /\ selectContainers' =
               << [options |-> EpisodeOptions(currentEpisodes'),
                   value |-> All, listeners |-> 1] >>
          /\ Len(infoTexts') = 1
          /\ root'.cards = currentEpisodes'
          /\ displayedShow' = lastEvent'.show]_vars
  /\ [][~RenderStep =>
          /\ InstalledHandlers' = InstalledHandlers
          /\ Len(infoTexts') = Len(infoTexts)
          /\ currentEpisodes' = currentEpisodes
          /\ \A k \in 1..Len(selectContainers) :
               selectContainers'[k].options = selectContainers[k].options]_vars

\* a response has just been rendered over the controls of a show rendered
\* before it, while another fetch is still under way
C23_Witness ==
  /\ lastEvent.type = "episodesSettled"
  /\ lastEvent.res = "httpOk"
  /\ inflight # {}
  /\ \E s \in ShowIds : s # lastEvent.show /\ showCache[s] # <<>>
  /\ Len(searchContainers) = 1
  /\ searchContainers[1].listeners = 1
  /\ selectContainers[1].listeners = 1

\* a cached show has just been rendered again over the controls of another
C23_WitnessCached ==
  /\ lastEvent.type = "showSelect"
  /\ lastEvent.show # NoShow
  /\ displayedShow = lastEvent.show
  /\ \E s \in ShowIds : s # lastEvent.show /\ showCache[s] # <<>>
  /\ Len(searchContainers) = 1
  /\ searchContainers[1] = [value |-> <<>>, listeners |-> 1]

====
